---- MODULE Spec2Model ----
(***************************************************************************)
(* helix-deploy: the Fastly gateway (src/src/gateway/FastlyGateway.js) and *)
(* the Google Cloud Functions deployer (src/unnamed/part_000).             *)
(*                                                                         *)
(* Three specifications share the module: SpecBuilder drives the builder   *)
(* calls of one FastlyGateway over every kind of argument; SpecGateway     *)
(* configures a gateway, runs one deploy() and follows a request through   *)
(* the VCL it activated; SpecGoogle drives one GoogleDeployer through      *)
(* init(), deploy() runs and test().  The gateway is configured before     *)
(* deploy() is called and not touched while it runs, and a deployer runs   *)
(* one deploy() or test() at a time.                                       *)
(***************************************************************************)
EXTENDS Integers, Sequences, FiniteSets, TLC

VARIABLES
  \* ---- FastlyGateway fields (constructor, lines 15-22) ----
  auth,        \* this._auth
  service,     \* this._service
  checkpath,   \* this._checkpath
  deployers,   \* this._deployers
  fastly,      \* this._fastly: <<>> is null, <<a, s>> is Fastly(a, s)
  ret,         \* what the last builder call returned
  \* ---- FastlyGateway.deploy() in progress ----
  pc,          \* position of deploy()
  cond,        \* the 'false' condition write
  hc,          \* hc[i]: the health-check write of deployer i
  be,          \* be[i]: the backend create/update of deployer i
  snippet,     \* <<s>>: the snippet write in flight, <<>>: none
  version,     \* the snippets written into the new version, in order
  req,         \* <<r>>: the request served by the activated version
  \* ---- GoogleDeployer fields ----
  cfg,         \* this.cfg / this._cfg (constructor input)
  client,      \* this._client: FALSE is null
  uploadURL,   \* this._uploadURL
  function,    \* this._function
  functionURL, \* this._functionURL
  gpc,         \* position of GoogleDeployer.deploy()
  exists,      \* createFunction's local `exists`
  name,        \* createFunction's local `name` (the function part)
  calls,       \* provider calls issued by the current deploy() run
  done,        \* the calls of the current run that have settled, with ok
  pending,     \* <<e>>: the error the failing step of the run threw
  raised,      \* <<e>>: what the run raised to the caller of deploy()
  hist,        \* how each finished deploy() run ended
  probe        \* <<p>>: the argument of testRequest() in the last test()
               \* since deploy() last returned

gwVars == <<auth, service, checkpath, deployers, fastly, ret,
            pc, cond, hc, be, snippet, version, req>>
goVars == <<cfg, client, uploadURL, function, functionURL, gpc, exists, name,
            calls, done, pending, raised, hist, probe>>
vars == <<gwVars, goVars>>

(***************************************************************************)
(* Bounds                                                                  *)
(***************************************************************************)
MaxDeployers == 3
MaxNameLen == 2
MaxRuns == 2

(***************************************************************************)
(* JavaScript values                                                       *)
(***************************************************************************)
Undefined == "undefined"

\* !!value for the values the builder is given: undefined and '' are falsy
ToBoolean(v) == v \notin {Undefined, ""}

(***************************************************************************)
(* FastlyGateway                                                           *)
(***************************************************************************)
AuthValues == {Undefined, "", "key1", "key2"}
ServiceValues == {Undefined, "svc1", "svc2"}
CheckpathValues == {"", "/health"}
Names == {"A", "B", "C"}

\* a deployer as the gateway reads it: name, host, basePath, urlVCL, customVCL
Deployer(n) ==
  [name |-> n, host |-> <<n, "host">>, basePath |-> <<n, "base">>,
   urlVCL |-> <<n, "url">>, customVCL |-> <<n, "custom">>]

Deployers == {Deployer(n) : n \in Names}

N == Len(deployers)

ready == ToBoolean(service) /\ ToBoolean(auth) /\ ToBoolean(checkpath)

Fastly(a, s) == <<a, s>>

InitGatewayFields ==
  /\ service = Undefined
  /\ auth = Undefined
  /\ fastly = <<>>
  /\ deployers = <<>>
  /\ checkpath = ""
  /\ ret = "none"

Configuring == pc = "idle"

deployVars == <<pc, cond, hc, be, snippet, version, req>>

\* init() that constructs the client on every call
init_always ==
  /\ Configuring
  /\ fastly' = IF ready THEN Fastly(auth, service) ELSE fastly
  /\ ret' = Undefined
  /\ UNCHANGED <<auth, service, checkpath, deployers, deployVars, goVars>>

init ==
  /\ Configuring
  /\ fastly' = IF ready /\ fastly = <<>> THEN Fastly(auth, service) ELSE fastly
  /\ ret' = Undefined
  /\ UNCHANGED <<auth, service, checkpath, deployers, deployVars, goVars>>

withAuth(value) ==
  /\ Configuring
  /\ auth' = value
  /\ ret' = "this"
  /\ UNCHANGED <<service, checkpath, deployers, fastly, deployVars, goVars>>

withServiceID(value) ==
  /\ Configuring
  /\ service' = value
  /\ ret' = "this"
  /\ UNCHANGED <<auth, checkpath, deployers, fastly, deployVars, goVars>>

withDeployer(value) ==
  /\ Configuring
  /\ N < MaxDeployers
  /\ deployers' = Append(deployers, value)
  /\ ret' = "this"
  /\ UNCHANGED <<auth, service, checkpath, fastly, deployVars, goVars>>

withCheckpath(value) ==
  /\ Configuring
  /\ checkpath' = value
  /\ ret' = "this"
  /\ UNCHANGED <<auth, service, deployers, fastly, deployVars, goVars>>

(***************************************************************************)
(* Generated VCL.  A snippet's text is kept as the structure the template  *)
(* spells out, and RunBackendVCL / RunURLVCL execute that structure the    *)
(* way Fastly executes the text.                                           *)
(***************************************************************************)

\* `declare local var.i; set var.i = randomint(0, N - 1); if (false) {}`
\* else if (var.i <= i && backend.F_name.healthy) { set req.backend = F_name; }
\* ... else { set req.backend = F_<deployers[0].name>; <customVCL> }
selectBackendVCL ==
  [lo |-> 0,
   hi |-> N - 1,
   middle |-> [i \in 1..N |->
                 [bound |-> i - 1, backend |-> deployers[i].name]],
   fallback |-> [backend |-> deployers[1].name,
                 custom |-> deployers[1].customVCL]]

\* one `if (req.backend == F_name) { set bereq.url = urlVCL; }` per deployer
setURLVCL ==
  [i \in 1..N |-> [backend |-> deployers[i].name, url |-> deployers[i].urlVCL]]

\* a branch condition with a strict comparison
BranchCond_strict(bound, backend, i, healthy) == i < bound /\ healthy[backend]

\* a branch condition that does not ask for the backend's health
BranchCond_noHealth(bound, backend, i, healthy) == i <= bound

\* the condition of one generated branch, as written in the template
BranchCond(bound, backend, i, healthy) == i <= bound /\ healthy[backend]

\* the if / else if / ... / else chain from branch k on, for the draw i
RECURSIVE ElseChain(_, _, _, _)
ElseChain(vcl, k, i, healthy) ==
  IF k > Len(vcl.middle)
  THEN vcl.fallback.backend
  ELSE IF BranchCond(vcl.middle[k].bound, vcl.middle[k].backend, i, healthy)
       THEN vcl.middle[k].backend
       ELSE ElseChain(vcl, k + 1, i, healthy)

\* req.backend after the 'backend' snippet ran with var.i = i
RunBackendVCL(vcl, i, healthy) == ElseChain(vcl, 1, i, healthy)

\* bereq.url after the independent `if`s of a URL snippet ran, from rule k on
RECURSIVE RunURLVCL(_, _, _, _)
RunURLVCL(rules, k, backend, url) ==
  IF k > Len(rules)
  THEN url
  ELSE RunURLVCL(rules, k + 1, backend,
                 IF backend = rules[k].backend THEN rules[k].url ELSE url)

(***************************************************************************)
(* FastlyGateway.deploy(): the writes of one transaction                   *)
(***************************************************************************)
SnippetNames == <<"backend", "missurl", "passurl", "logurl">>

BackendSnippet ==
  [name |-> "backend", priority |-> 10, dynamic |-> 0, type |-> "recv",
   content |-> selectBackendVCL]

MissurlSnippet ==
  [name |-> "missurl", priority |-> 10, dynamic |-> 0, type |-> "miss",
   content |-> setURLVCL]

PassurlSnippet ==
  [name |-> "passurl", priority |-> 10, dynamic |-> 0, type |-> "miss",
   content |-> setURLVCL]

LogurlSnippet ==
  [name |-> "logurl", priority |-> 10, dynamic |-> 0, type |-> "fetch",
   content |-> <<"X-Backend-URL", "X-Backend-Name">>]

\* the k-th writeSnippet call of deploy()
SnippetAt(k) ==
  CASE k = 1 -> BackendSnippet
    [] k = 2 -> MissurlSnippet
    [] k = 3 -> PassurlSnippet
    [] k = 4 -> LogurlSnippet

\* a batch taken as resolved once any member has resolved
PromiseAllResolved_any(batch, okStates) ==
  \E i \in 1..Len(batch) : batch[i] \in okStates

\* await Promise.all(batch): resolved once every member has resolved
PromiseAllResolved(batch, okStates) ==
  \A i \in 1..Len(batch) : batch[i] \in okStates

\* Promise.all(batch) rejects as soon as one member rejects
PromiseAllRejected(batch) == \E i \in 1..Len(batch) : batch[i] = "failed"

InitDeploy ==
  /\ pc = "idle"
  /\ cond = "idle"
  /\ hc = <<>>
  /\ be = <<>>
  /\ snippet = <<>>
  /\ version = <<>>
  /\ req = <<>>

gwFields == <<auth, service, checkpath, deployers, fastly, ret>>

\* deploy() entered: this._fastly.transact(...) on a null client throws
deploy ==
  /\ pc = "idle"
  /\ pc' = IF fastly = <<>> THEN "rejected" ELSE "transact"
  /\ UNCHANGED <<cond, hc, be, snippet, version, req, gwFields, goVars>>

\* transact() has opened the new version and calls the callback, which
\* issues the condition write; or opening the version failed
transactBegin(ok) ==
  /\ pc = "transact"
  /\ IF ok
     THEN pc' = "cond" /\ cond' = "inflight"
     ELSE pc' = "rejected" /\ cond' = cond
  /\ UNCHANGED <<hc, be, snippet, version, req, gwFields, goVars>>

\* the callback after `await Promise.all(backends)`: the first writeSnippet
\* is issued; evaluating selectBackendVCL() on an empty list throws
IssueFirstSnippet ==
  IF N = 0
  THEN pc' = "rejected" /\ snippet' = snippet
  ELSE pc' = "snip" /\ snippet' = <<[w |-> SnippetAt(1), st |-> "inflight"]>>

\* the callback after `await Promise.all(healthchecks)`: every backend
\* create is issued at once
IssueBackends ==
  /\ be' = [i \in 1..N |-> "creating"]
  /\ IF N = 0 THEN IssueFirstSnippet ELSE pc' = "be" /\ snippet' = snippet

\* writeCondition settled; on success every health-check write is issued
writeConditionDone(ok) ==
  /\ pc = "cond"
  /\ cond = "inflight"
  /\ IF ok
     THEN /\ cond' = "ok"
          /\ hc' = [i \in 1..N |-> "inflight"]
          /\ IF N = 0
             THEN IssueBackends
             ELSE pc' = "hc" /\ be' = be /\ snippet' = snippet
     ELSE /\ cond' = "failed"
          /\ pc' = "rejected"
          /\ UNCHANGED <<hc, be, snippet>>
  /\ UNCHANGED <<version, req, gwFields, goVars>>

\* one writeHealthcheck settled (in any order; also after the batch rejected)
writeHealthcheckDone(i, ok) ==
  /\ i \in 1..Len(hc)
  /\ hc[i] = "inflight"
  /\ hc' = [hc EXCEPT ![i] = IF ok THEN "ok" ELSE "failed"]
  /\ IF pc # "hc"
     THEN UNCHANGED <<pc, be, snippet>>
     ELSE IF PromiseAllRejected(hc')
          THEN pc' = "rejected" /\ UNCHANGED <<be, snippet>>
          ELSE IF PromiseAllResolved(hc', {"ok"})
               THEN IssueBackends
               ELSE UNCHANGED <<pc, be, snippet>>
  /\ UNCHANGED <<cond, version, req, gwFields, goVars>>

\* the continuation of one backend's async function settling
BackendSettled ==
  IF pc # "be"
  THEN UNCHANGED <<pc, snippet>>
  ELSE IF PromiseAllRejected(be')
       THEN pc' = "rejected" /\ snippet' = snippet
       ELSE IF PromiseAllResolved(be', {"created", "updated"})
            THEN IssueFirstSnippet
            ELSE UNCHANGED <<pc, snippet>>

\* createBackend settled; its catch issues updateBackend
createBackendDone(i, ok) ==
  /\ i \in 1..Len(be)
  /\ be[i] = "creating"
  /\ be' = [be EXCEPT ![i] = IF ok THEN "created" ELSE "updating"]
  /\ BackendSettled
  /\ UNCHANGED <<cond, hc, version, req, gwFields, goVars>>

\* updateBackend settled
updateBackendDone(i, ok) ==
  /\ i \in 1..Len(be)
  /\ be[i] = "updating"
  /\ be' = [be EXCEPT ![i] = IF ok THEN "updated" ELSE "failed"]
  /\ BackendSettled
  /\ UNCHANGED <<cond, hc, version, req, gwFields, goVars>>

\* the writeSnippet in flight settled; on success the next one is issued,
\* after the fourth the callback returns and transact() activates
writeSnippetDone(ok) ==
  /\ pc = "snip"
  /\ snippet # <<>>
  /\ snippet[1].st = "inflight"
  /\ IF ok
     THEN /\ version' = Append(version, snippet[1].w)
          /\ IF Len(version') < Len(SnippetNames)
             THEN /\ snippet' = <<[w |-> SnippetAt(Len(version') + 1),
                                   st |-> "inflight"]>>
                  /\ pc' = pc
             ELSE /\ snippet' = <<>>
                  /\ pc' = "commit"
     ELSE /\ snippet' = <<[snippet[1] EXCEPT !.st = "failed"]>>
          /\ pc' = "rejected"
          /\ version' = version
  /\ UNCHANGED <<cond, hc, be, req, gwFields, goVars>>

\* transact(..., true) activates the version and resolves, or rejects
transactEnd(ok) ==
  /\ pc = "commit"
  /\ pc' = IF ok THEN "done" ELSE "rejected"
  /\ UNCHANGED <<cond, hc, be, snippet, version, req, gwFields, goVars>>

(***************************************************************************)
(* A request served by the activated version: the recv snippets choose     *)
(* req.backend, the snippets of the request's path (miss or pass) rewrite  *)
(* bereq.url.  The VCL keeps no state between requests, so a behaviour     *)
(* follows one request and ends with it ("served").                        *)
(***************************************************************************)
SnippetsOf(type) == SelectSeq(version, LAMBDA s : s.type = type)

RECURSIVE RunURLSnippets(_, _, _, _)
RunURLSnippets(snips, k, backend, url) ==
  IF k > Len(snips)
  THEN url
  ELSE RunURLSnippets(snips, k + 1, backend,
                      RunURLVCL(snips[k].content, 1, backend, url))

Request(i, healthy, path) ==
  /\ pc = "done"
  /\ pc' = "served"
  /\ LET recv == SnippetsOf("recv")[1].content
         backend == RunBackendVCL(recv, i, healthy)
     IN /\ i \in recv.lo..recv.hi
        /\ req' = <<[i |-> i, healthy |-> healthy, path |-> path,
                     backend |-> backend,
                     url |-> RunURLSnippets(SnippetsOf(path), 1, backend,
                                            <<"orig">>)]>>
  /\ UNCHANGED <<cond, hc, be, snippet, version, gwFields, goVars>>

Draws == 0..(MaxDeployers - 1)

\* the builder calls alone, over every kind of value a caller may pass
NextBuilder ==
  \/ init
  \/ \E v \in AuthValues : withAuth(v)
  \/ \E v \in ServiceValues : withServiceID(v)
  \/ \E v \in Deployers : withDeployer(v)
  \/ \E v \in CheckpathValues : withCheckpath(v)

\* a gateway configured with one credential, then deployed and serving
NextGateway ==
  \/ init
  \/ withAuth("key1")
  \/ withServiceID("svc1")
  \/ \E v \in Deployers : withDeployer(v)
  \/ withCheckpath("/health")
  \/ deploy
  \/ \E ok \in BOOLEAN : transactBegin(ok)
  \/ \E ok \in BOOLEAN : writeConditionDone(ok)
  \/ \E i \in 1..MaxDeployers, ok \in BOOLEAN : writeHealthcheckDone(i, ok)
  \/ \E i \in 1..MaxDeployers, ok \in BOOLEAN : createBackendDone(i, ok)
  \/ \E i \in 1..MaxDeployers, ok \in BOOLEAN : updateBackendDone(i, ok)
  \/ \E ok \in BOOLEAN : writeSnippetDone(ok)
  \/ \E ok \in BOOLEAN : transactEnd(ok)
  \/ \E i \in Draws, healthy \in [Names -> BOOLEAN], path \in {"miss", "pass"} :
       Request(i, healthy, path)

(***************************************************************************)
(* GoogleDeployer                                                          *)
(***************************************************************************)
Chars == {".", "@", "a"}

\* the strings of at most n characters
Strings(n) == UNION {[1..k -> Chars] : k \in 0..n}

Region == "region"
ProjectID == "project"

\* String.prototype.replace(/x/g, to): every occurrence
ReplaceAll(s, from, to) ==
  [i \in 1..Len(s) |-> IF s[i] = from THEN to ELSE s[i]]

\* String.prototype.replace('x', to) with a string pattern: the first
\* occurrence only
ReplaceFirst(s, from, to) ==
  [i \in 1..Len(s) |->
     IF s[i] = from /\ \A j \in 1..(i - 1) : s[j] # from THEN to ELSE s[i]]

fullFunctionName ==
  ReplaceFirst(ReplaceAll(cfg.packageName \o <<"-", "-">> \o cfg.name,
                          ".", "_"),
               "@", "_")

\* errors: the step that threw and the diagnostic metadata the error carries
\* ("full": err.metadata.internalRepr holds both entries)
Metadata == {"none", "noBadRequest", "noDetails", "full"}
Error(from, metadata) == [from |-> from, metadata |-> metadata]
TypeError == Error("TypeError", "none")

\* this run's number, its upload URL and the URL of the function it deploys
Run == Len(hist) + 1
UploadUrl == <<"upload", Run>>
LiveUrl == <<"live", Run>>

FallbackUrl ==
  <<"https://", Region, "-", ProjectID, ".cloudfunctions.net/",
    fullFunctionName>>

InitGoogle ==
  /\ cfg \in [packageName : Strings(MaxNameLen), name : Strings(MaxNameLen)]
  /\ client = FALSE
  /\ uploadURL = <<>>
  /\ function = <<>>
  /\ functionURL = <<>>
  /\ gpc = "idle"
  /\ exists = FALSE
  /\ name = <<>>
  /\ calls = <<>>
  /\ done = <<>>
  /\ pending = <<>>
  /\ raised = <<>>
  /\ hist = <<>>
  /\ probe = <<>>

\* init(): the client is constructed, or its construction throws
googleInit(ok) ==
  /\ gpc = "idle"
  /\ client' = IF ok THEN TRUE ELSE client
  /\ UNCHANGED <<cfg, uploadURL, function, functionURL, gpc, exists, name,
                 calls, done, pending, raised, hist, probe, gwVars>>

Issue(call) == calls' = Append(calls, call)
Settle(call, ok) == done' = Append(done, [call |-> call, ok |-> ok])

\* deploy()'s catch: log and rethrow
DeployCatch(err) ==
  /\ raised' = <<err>>
  /\ hist' = Append(hist, "rejected")
  /\ gpc' = "idle"

\* createFunction()'s catch: log err, read both diagnostic entries off
\* err.metadata.internalRepr, throw err
CreateFunctionCatch(err) ==
  DeployCatch(IF err.metadata = "full" THEN err ELSE TypeError)

\* deploy() entered; uploadZIP() issues generateUploadUrl
googleDeploy ==
  /\ gpc = "idle"
  /\ Len(hist) < MaxRuns
  /\ probe' = <<>>
  /\ done' = <<>>
  /\ pending' = <<>>
  /\ IF client = FALSE
     THEN /\ calls' = <<>>
          /\ DeployCatch(TypeError)
     ELSE /\ calls' = <<"generateUploadUrl">>
          /\ gpc' = "generateUploadUrl"
          /\ raised' = <<>>
          /\ hist' = hist
  /\ UNCHANGED <<cfg, client, uploadURL, function, functionURL, exists, name,
                 gwVars>>

generateUploadUrlDone(ok) ==
  /\ gpc = "generateUploadUrl"
  /\ Settle("generateUploadUrl", ok)
  /\ IF ok
     THEN /\ Issue("PUT")
          /\ gpc' = "PUT"
          /\ UNCHANGED <<pending, raised, hist>>
     ELSE /\ pending' = <<Error("generateUploadUrl", "none")>>
          /\ DeployCatch(pending'[1])
          /\ calls' = calls
  /\ UNCHANGED <<cfg, client, uploadURL, function, functionURL, exists, name,
                 probe, gwVars>>

\* fetch(uploadUrl, PUT) settled; then createFunction() starts and issues
\* the getFunction lookup
putDone(ok) ==
  /\ gpc = "PUT"
  /\ Settle("PUT", ok)
  /\ IF ok
     THEN /\ uploadURL' = UploadUrl
          /\ name' = fullFunctionName
          /\ exists' = FALSE
          /\ Issue("getFunction")
          /\ gpc' = "getFunction"
          /\ UNCHANGED <<pending, raised, hist>>
     ELSE /\ pending' = <<Error("PUT", "none")>>
          /\ DeployCatch(pending'[1])
          /\ UNCHANGED <<uploadURL, name, exists, calls>>
  /\ UNCHANGED <<cfg, client, function, functionURL, probe, gwVars>>

\* a lookup whose outcome is read the wrong way round
LookupResult_inverted(ok) == ~ok

\* the existence of the function as createFunction() concludes it from the
\* lookup: found when getFunction returned, absent when it threw
LookupResult(ok) == ok

getFunctionDone(ok) ==
  /\ gpc = "getFunction"
  /\ Settle("getFunction", ok)
  /\ exists' = LookupResult(ok)
  /\ IF exists'
     THEN Issue("updateFunction") /\ gpc' = "updateFunction"
     ELSE Issue("createFunction") /\ gpc' = "createFunction"
  /\ UNCHANGED <<cfg, client, uploadURL, function, functionURL, name,
                 pending, raised, hist, probe, gwVars>>

\* create-or-update that grants the IAM policy without awaiting the operation
createOrUpdateDone_noWait(ok, metadata) ==
  /\ gpc \in {"updateFunction", "createFunction"}
  /\ Settle(gpc, ok)
  /\ IF ok
     THEN /\ Issue("setIamPolicy")
          /\ gpc' = "setIamPolicy"
          /\ UNCHANGED <<pending, raised, hist>>
     ELSE /\ pending' = <<Error(gpc, metadata)>>
          /\ CreateFunctionCatch(pending'[1])
          /\ calls' = calls
  /\ UNCHANGED <<cfg, client, uploadURL, function, functionURL, exists, name,
                 probe, gwVars>>

\* updateFunction / createFunction returned the operation handle, or threw
createOrUpdateDone(ok, metadata) ==
  /\ gpc \in {"updateFunction", "createFunction"}
  /\ Settle(gpc, ok)
  /\ IF ok
     THEN /\ Issue("op.promise")
          /\ gpc' = "op.promise"
          /\ UNCHANGED <<pending, raised, hist>>
     ELSE /\ pending' = <<Error(gpc, metadata)>>
          /\ CreateFunctionCatch(pending'[1])
          /\ calls' = calls
  /\ UNCHANGED <<cfg, client, uploadURL, function, functionURL, exists, name,
                 probe, gwVars>>

\* an operation wait that records the function URL before the IAM grant
opDone_earlyURL(ok, metadata) ==
  /\ gpc = "op.promise"
  /\ Settle("op.promise", ok)
  /\ IF ok
     THEN /\ function' = <<[name |-> name, httpsTrigger |-> [url |-> LiveUrl]]>>
          /\ functionURL' = LiveUrl
          /\ Issue("setIamPolicy")
          /\ gpc' = "setIamPolicy"
          /\ UNCHANGED <<pending, raised, hist>>
     ELSE /\ pending' = <<Error("op.promise", metadata)>>
          /\ CreateFunctionCatch(pending'[1])
          /\ UNCHANGED <<function, functionURL, calls>>
  /\ UNCHANGED <<cfg, client, uploadURL, exists, name, probe, gwVars>>

\* the long-running operation resolved with the function resource, or failed
opDone(ok, metadata) ==
  /\ gpc = "op.promise"
  /\ Settle("op.promise", ok)
  /\ IF ok
     THEN /\ function' = <<[name |-> name, httpsTrigger |-> [url |-> LiveUrl]]>>
          /\ Issue("setIamPolicy")
          /\ gpc' = "setIamPolicy"
          /\ UNCHANGED <<pending, raised, hist>>
     ELSE /\ pending' = <<Error("op.promise", metadata)>>
          /\ CreateFunctionCatch(pending'[1])
          /\ UNCHANGED <<function, calls>>
  /\ UNCHANGED <<cfg, client, uploadURL, functionURL, exists, name, probe,
                 gwVars>>

setIamPolicyDone(ok, metadata) ==
  /\ gpc = "setIamPolicy"
  /\ Settle("setIamPolicy", ok)
  /\ IF ok
     THEN /\ functionURL' = function[1].httpsTrigger.url
          /\ hist' = Append(hist, "resolved")
          /\ gpc' = "idle"
          /\ UNCHANGED <<pending, raised>>
     ELSE /\ pending' = <<Error("setIamPolicy", metadata)>>
          /\ CreateFunctionCatch(pending'[1])
          /\ functionURL' = functionURL
  /\ UNCHANGED <<cfg, client, uploadURL, function, exists, name, calls, probe,
                 gwVars>>

test ==
  /\ gpc = "idle"
  /\ LET url == IF functionURL # <<>> THEN functionURL ELSE FallbackUrl
     IN probe' = <<[url |-> url, idHeader |-> "X-Cloud-Trace-Context",
                    retry404 |-> 1]>>
  /\ UNCHANGED <<cfg, client, uploadURL, function, functionURL, gpc, exists,
                 name, calls, done, pending, raised, hist, gwVars>>

NextGoogle ==
  \/ \E ok \in BOOLEAN : googleInit(ok)
  \/ googleDeploy
  \/ \E ok \in BOOLEAN : generateUploadUrlDone(ok)
  \/ \E ok \in BOOLEAN : putDone(ok)
  \/ \E ok \in BOOLEAN : getFunctionDone(ok)
  \/ \E ok \in BOOLEAN, m \in Metadata : createOrUpdateDone(ok, m)
  \/ \E ok \in BOOLEAN, m \in Metadata : opDone(ok, m)
  \/ \E ok \in BOOLEAN, m \in Metadata : setIamPolicyDone(ok, m)
  \/ test

(***************************************************************************)
(* Specifications                                                          *)
(***************************************************************************)
\* a deployer left as constructed, with an empty configuration
GoogleAtRest ==
  /\ cfg = [packageName |-> <<>>, name |-> <<>>]
  /\ client = FALSE
  /\ uploadURL = <<>>
  /\ function = <<>>
  /\ functionURL = <<>>
  /\ gpc = "idle"
  /\ exists = FALSE
  /\ name = <<>>
  /\ calls = <<>>
  /\ done = <<>>
  /\ pending = <<>>
  /\ raised = <<>>
  /\ hist = <<>>
  /\ probe = <<>>

\* a gateway left as constructed
GatewayAtRest == InitGatewayFields /\ InitDeploy

InitGatewaySpec == InitGatewayFields /\ InitDeploy /\ GoogleAtRest
InitGoogleSpec == InitGoogle /\ GatewayAtRest

SpecBuilder == InitGatewaySpec /\ [][NextBuilder]_vars
SpecGateway == InitGatewaySpec /\ [][NextGateway]_vars
SpecGoogle == InitGoogleSpec /\ [][NextGoogle]_vars

(***************************************************************************)
(* Claims                                                                  *)
(***************************************************************************)
Healthy(k, healthy) == healthy[deployers[k].name]
AllHealthy == [n \in Names |-> TRUE]
NoneHealthy == [n \in Names |-> FALSE]
Activated == pc \in {"done", "served"}

\* C1: with all backends healthy every draw r in [0, N-1] selects the
\* deployer at index r (so every deployer is selected by some draw), and
\* with no backend healthy every draw selects deployer 0.
C1_RouteEveryDraw ==
  /\ Activated =>
       \A i \in 0..(N - 1) :
         /\ RunBackendVCL(version[1].content, i, AllHealthy)
              = deployers[i + 1].name
         /\ RunBackendVCL(version[1].content, i, NoneHealthy)
              = deployers[1].name
  /\ req # <<>> =>
       /\ req[1].i \in 0..(N - 1)
       /\ (\A k \in 1..N : Healthy(k, req[1].healthy))
            => req[1].backend = deployers[req[1].i + 1].name
       /\ (\A k \in 1..N : ~Healthy(k, req[1].healthy))
            => req[1].backend = deployers[1].name

\* C1 witness: the last of three deployers, all healthy, is selected by the
\* draw 2 and is not the fallback backend
C1_Witness ==
  /\ req # <<>>
  /\ N = 3
  /\ req[1].i = 2
  /\ \A k \in 1..N : Healthy(k, req[1].healthy)
  /\ req[1].backend = deployers[3].name
  /\ deployers[3].name # deployers[1].name

\* C2: the writes of deploy() happen in stages: the condition write
\* completes before any health-check write starts, all N health-check writes
\* complete before any backend write starts, all N backend writes complete
\* before the first snippet write, and the snippets are written one at a
\* time in the order backend, missurl, passurl, logurl; after a failed write
\* nothing of a later stage is issued and deploy() rejects.
C2_Stages ==
  /\ cond # "idle" => pc \notin {"idle", "transact"}
  /\ hc # <<>> => cond = "ok"
  /\ be # <<>> => Len(hc) = N /\ \A i \in 1..N : hc[i] = "ok"
  /\ (snippet # <<>> \/ version # <<>>) =>
       Len(be) = N /\ \A i \in 1..N : be[i] \in {"created", "updated"}
  /\ Len(version) <= Len(SnippetNames)
  /\ \A k \in 1..Len(version) : version[k].name = SnippetNames[k]
  /\ snippet # <<>> =>
       /\ Len(version) < Len(SnippetNames)
       /\ snippet[1].w.name = SnippetNames[Len(version) + 1]
  /\ cond = "failed" =>
       pc = "rejected" /\ hc = <<>> /\ be = <<>> /\ snippet = <<>>
       /\ version = <<>>
  /\ (\E i \in 1..Len(hc) : hc[i] = "failed") =>
       pc = "rejected" /\ be = <<>> /\ snippet = <<>> /\ version = <<>>
  /\ (\E i \in 1..Len(be) : be[i] = "failed") =>
       pc = "rejected" /\ snippet = <<>> /\ version = <<>>
  /\ (snippet # <<>> /\ snippet[1].st = "failed") => pc = "rejected"
  /\ pc \in {"commit", "done", "served"} =>
       /\ Len(version) = Len(SnippetNames)
       /\ snippet = <<>>

\* C2 witness: a deploy of several backends went through every stage, one
\* backend by update after its create failed
C2_Witness ==
  /\ Activated
  /\ N >= 2
  /\ \E i \in 1..N : be[i] = "updated"
  /\ \E i \in 1..N : be[i] = "created"

\* C8: after a successful deploy the version holds a URL-rewrite snippet on
\* the miss phase and one with the same content on the pass phase, so a
\* request's bereq.url is rewritten to its backend's urlVCL on both paths.
C8_MissAndPass ==
  /\ Activated =>
       \E m, p \in 1..Len(version) :
         /\ version[m].type = "miss"
         /\ version[p].type = "pass"
         /\ version[m].name = "missurl"
         /\ version[p].name = "passurl"
         /\ version[m].content = version[p].content
  /\ req # <<>> =>
       \E k \in 1..N :
         /\ deployers[k].name = req[1].backend
         /\ req[1].url = deployers[k].urlVCL

\* C9: ready() is true exactly when auth, service id and checkpath are all
\* set to non-empty values; init() constructs the client only when ready,
\* never replaces a client once constructed and leaves it null while not
\* ready; every builder setter returns the gateway itself.
C9_Builder ==
  /\ [](ready <=> (/\ auth # Undefined /\ auth # ""
                   /\ service # Undefined /\ service # ""
                   /\ checkpath # Undefined /\ checkpath # ""))
  /\ [][/\ fastly # <<>> => fastly' = fastly
        /\ (fastly = <<>> /\ fastly' # <<>>) =>
             /\ auth \notin {Undefined, ""}
             /\ service \notin {Undefined, ""}
             /\ checkpath \notin {Undefined, ""}
             /\ fastly' = <<auth, service>>
             /\ ret' = Undefined
        /\ (ret' = Undefined /\ fastly = <<>>
              /\ (auth \in {Undefined, ""} \/ service \in {Undefined, ""}
                    \/ checkpath \in {Undefined, ""})) => fastly' = <<>>
        /\ (ret' = Undefined /\ fastly = <<>>
              /\ auth \notin {Undefined, ""} /\ service \notin {Undefined, ""}
              /\ checkpath \notin {Undefined, ""}) => fastly' = <<auth, service>>
        /\ (auth' # auth \/ service' # service \/ checkpath' # checkpath
              \/ deployers' # deployers) => ret' = "this"]_vars

\* C9 witness: the client still holds the credentials of its construction
\* after both setters were called again, the gateway being no longer ready
C9_Witness ==
  /\ fastly # <<>>
  /\ fastly[1] # auth
  /\ fastly[2] # service
  /\ ~ready
  /\ ret = Undefined

\* C10 (as stated): whenever at least one backend is healthy, the selected
\* backend is healthy.
C10_HealthyIfAny ==
  req # <<>> =>
    ((\E k \in 1..N : Healthy(k, req[1].healthy))
       => req[1].healthy[req[1].backend])

\* C10 (amended): the selected backend is healthy whenever deployer 0 or a
\* backend at an index >= r is healthy; an unhealthy backend is selected only
\* when no backend at an index >= r is healthy, and it is then deployer 0.
C10_HealthyIfAnyFromDraw ==
  req # <<>> =>
    /\ (\E k \in 1..N : k - 1 >= req[1].i /\ Healthy(k, req[1].healthy))
         => req[1].healthy[req[1].backend]
    /\ Healthy(1, req[1].healthy) => req[1].healthy[req[1].backend]
    /\ ~req[1].healthy[req[1].backend] =>
         /\ req[1].backend = deployers[1].name
         /\ \A k \in 1..N : k - 1 >= req[1].i => ~Healthy(k, req[1].healthy)

\* C10 witness: the draw's own backend is unhealthy and is skipped for a
\* healthy one further down the list
C10_Witness ==
  /\ req # <<>>
  /\ ~Healthy(req[1].i + 1, req[1].healthy)
  /\ req[1].healthy[req[1].backend]
  /\ req[1].backend # deployers[1].name

HasNoDotOrAt(s) == \A i \in 1..Len(s) : s[i] \notin {".", "@"}

\* C3: the function name createFunction() derives from package name and
\* function name (fullFunctionName), and the deployed resource's name, hold
\* no '.' and no '@', also when the combined name holds several '@'.
C3_NoDotNoAt ==
  /\ HasNoDotOrAt(name)
  /\ function # <<>> => HasNoDotOrAt(function[1].name)

Count(s, x) == Cardinality({k \in 1..Len(s) : s[k] = x})
LastRun == IF gpc = "idle" THEN Len(hist) ELSE Len(hist) + 1

\* C4: every createFunction() run issues exactly one of createFunction and
\* updateFunction: createFunction when the lookup threw, updateFunction when
\* it returned; a lookup that threw never ends the run.
C4_CreateOrUpdate ==
  /\ Count(calls, "createFunction") + Count(calls, "updateFunction") <= 1
  /\ \A k \in 1..Len(done) :
       done[k].call = "getFunction" =>
         /\ Len(calls) > k
         /\ calls[k + 1] = IF done[k].ok THEN "updateFunction"
                                         ELSE "createFunction"
         /\ Count(calls, "createFunction") + Count(calls, "updateFunction") = 1
  /\ (raised # <<>>) => raised[1].from # "getFunction"
  /\ (gpc = "idle" /\ done # <<>>) => done[Len(done)].call # "getFunction"

\* C4 witness: a run whose lookup threw created the function and resolved
C4_Witness ==
  /\ gpc = "idle"
  /\ hist # <<>>
  /\ hist[Len(hist)] = "resolved"
  /\ \E k \in 1..Len(done) : done[k] = [call |-> "getFunction", ok |-> FALSE]
  /\ Count(calls, "createFunction") = 1

Order(e) ==
  <<"generateUploadUrl", "PUT", "getFunction",
    IF e THEN "updateFunction" ELSE "createFunction",
    "op.promise", "setIamPolicy">>

\* C5: the provider calls of a deploy() run are issued in the order
\* generateUploadUrl, PUT, getFunction, create-or-update, operation wait,
\* setIamPolicy, each after the previous one completed; create-or-update
\* only after the PUT completed and _uploadURL is set; setIamPolicy exactly
\* when the operation resolved, on both branches; nothing after a failed
\* generateUploadUrl or PUT.
C5_Order ==
  /\ \E e \in BOOLEAN : calls = SubSeq(Order(e), 1, Len(calls))
  /\ Len(done) <= Len(calls)
  /\ Len(calls) <= Len(done) + 1
  /\ gpc = "idle" => Len(calls) = Len(done)
  /\ \A k \in 1..Len(done) : done[k].call = calls[k]
  /\ \A k \in 1..(Len(calls) - 1) :
       done[k].ok \/ done[k].call = "getFunction"
  /\ Len(calls) >= 4 =>
       /\ done[2] = [call |-> "PUT", ok |-> TRUE]
       /\ uploadURL = <<"upload", LastRun>>
  /\ Len(calls) = 6 <=> (Len(done) >= 5 /\ done[5].ok)
  /\ (\E k \in 1..Len(done) : k <= 2 /\ ~done[k].ok) => Len(calls) <= 2

\* C5 witness: a run on the update branch went through all six calls
C5_Witness ==
  /\ gpc = "idle"
  /\ calls = Order(TRUE)
  /\ \A k \in 1..6 : done[k].ok

\* C6: when create, update, the operation wait or setIamPolicy fails with E,
\* deploy() raises that same E, whatever metadata E carries.
C6_SameError ==
  (/\ gpc = "idle"
   /\ pending # <<>>
   /\ pending[1].from \in {"createFunction", "updateFunction", "op.promise",
                           "setIamPolicy"})
    => raised = pending

Resolved == {k \in 1..Len(hist) : hist[k] = "resolved"}
LastResolved == CHOOSE k \in Resolved : \A j \in Resolved : j <= k

\* C7: _functionURL is set exactly when some deploy() run succeeded; test()
\* probes the fallback URL built from region, project and function name
\* until then and the live URL of the last successful run afterwards, with
\* idHeader X-Cloud-Trace-Context and one 404 retry.
C7_TestUrl ==
  /\ functionURL # <<>> <=> Resolved # {}
  /\ functionURL # <<>> => functionURL = <<"live", LastResolved>>
  /\ probe # <<>> =>
       /\ probe[1].idHeader = "X-Cloud-Trace-Context"
       /\ probe[1].retry404 = 1
       /\ probe[1].url =
            IF Resolved = {}
            THEN <<"https://", "region", "-", "project", ".cloudfunctions.net/",
                   fullFunctionName>>
            ELSE <<"live", LastResolved>>

\* C7 witness: test() after a run that deployed the function but failed to
\* grant the IAM policy probes the fallback URL
C7_Witness ==
  /\ probe # <<>>
  /\ function # <<>>
  /\ functionURL = <<>>
  /\ hist # <<>>
  /\ probe[1].url[1] = "https://"

====
